---------------------------- MODULE Spec2Model ----------------------------
(***************************************************************************)
(* Model of the json-ld expanded-document core:                            *)
(*   - Multiset<T>        crates/core/src/object/node/multiset.rs          *)
(*   - List -> RDF chain  crates/core/src/deserialization/object/list.rs   *)
(*   - literal_to_value   crates/serialization/src/expanded/value.rs       *)
(*   - document / graph serializers                                        *)
(*                        crates/serialization/src/expanded/{mod,          *)
(*                        default_graph,graph}.rs                          *)
(***************************************************************************)
EXTENDS Integers, Sequences, FiniteSets, TLC

VARIABLES
    a,          \* Multiset::data of a first multiset (Vec<T>)
    b,          \* Multiset::data of a second multiset
    dedup,      \* TRUE while `a` has only ever been modified by insert_unique
    last,       \* the last Multiset operation and what it returned
    elems,      \* the elements of the List being encoded (List::as_slice)
    stack,      \* active Rest::visit_subject calls, innermost last
    triples,    \* predicate callbacks received by the subject visitors, in order
    ended,      \* subjects whose visitor received end(), in order
    minted,     \* number of subjects the visitor has created so far
    lstatus,    \* "idle", "running", "ok" or "err": the encoding's Result
    vocabulary, \* the IRIs the vocabulary has interned (a handle resolves iff interned)
    lit,        \* the literal last handed to literal_to_value
    mapped,     \* what that call produced: a Value, or a panic
    driver,     \* whose LinkedData::visit drives the document serializer
    dstate,     \* "idle", "running", "done", "failed" or "panicked"
    doc,        \* SerializeExpandedDocument::result
    scope,      \* the graph visitor currently open, if any
    calls,      \* document-level callbacks made so far, with their outcome
    ret,        \* what visit() returned to the caller of the serialization
    counts,     \* subject callbacks made and ExpandedDocument::insert calls made
    lastcb      \* the last callback handled and the state it started from

msVars == <<a, b, dedup, last>>

listVars == <<elems, stack, triples, ended, minted, lstatus>>

litVars == <<vocabulary, lit, mapped>>

docVars == <<driver, dstate, doc, scope, calls, ret, counts, lastcb>>

vars == <<a, b, dedup, last, elems, stack, triples, ended, minted, lstatus,
          vocabulary, lit, mapped, driver, dstate, doc, scope, calls, ret,
          counts, lastcb>>

(***************************************************************************)
(* Bounds                                                                  *)
(***************************************************************************)
MaxLen == 3

MaxListLen == 3

\* Graph callbacks one visit() makes before end, and subjects per graph.
MaxCalls == 2

MaxSubjects == 2

\* Element values of a Multiset; element equality (PartialEq) is identity.
Elems == {"p", "q", "r"}

(***************************************************************************)
(* Each component before it is used                                        *)
(***************************************************************************)
\* No multiset is being exercised.
MultisetIdle ==
    /\ a = <<>>
    /\ b = <<>>
    /\ dedup = TRUE
    /\ last = [op |-> "off"]

\* No list is being encoded.
ListIdle ==
    /\ elems = <<>>
    /\ stack = <<>>
    /\ triples = <<>>
    /\ ended = <<>>
    /\ minted = 0
    /\ lstatus = "off"

\* Strings are sequences of characters.
Str_abc == <<"a", "b", "c">>

XSD_STRING == "xsd:string"

NoLiteral == [tag |-> "None", s |-> <<>>, iri |-> "", lang |-> "", kind |-> ""]

NoValue == [kind |-> "None", s |-> <<>>, ty |-> "", lang |-> ""]

\* The IRIs interned when a pass starts.
InitialVocabulary == {XSD_STRING, "ex:custom", "xsd:integer", "xsd:boolean"}

\* The mapper is not being exercised on its own.
LiteralIdle ==
    /\ vocabulary = InitialVocabulary
    /\ lit = NoLiteral
    /\ mapped = [status |-> "off", v |-> NoValue]

NoGraph == [some |-> FALSE, objects |-> {}]

NoObject == [kind |-> "None", id |-> "", value |-> NoValue, graph |-> NoGraph]

NoTerm == [tag |-> "None", id |-> "", lit |-> NoLiteral]

NoScope == [kind |-> "none", node |-> NoObject, graph |-> {}, n |-> 0]

NoReturn == [kind |-> "none", doc |-> {}, error |-> ""]

NoCounts == [subjects |-> 0, inserts |-> 0]

NoCallback ==
    [cb |-> "none", term |-> NoTerm, outcome |-> "", before |-> {},
     counts |-> NoCounts, vocabulary |-> {}]

\* SerializeExpandedDocument::new: an empty ExpandedDocument.
NewDocument ==
    /\ doc = {}
    /\ scope = NoScope
    /\ calls = <<>>
    /\ ret = NoReturn
    /\ counts = NoCounts
    /\ lastcb = NoCallback

\* No document is being serialized.
DocIdle ==
    /\ driver = "none"
    /\ dstate = "idle"
    /\ NewDocument

(***************************************************************************)
(* 64-bit unsigned words as four 16-bit limbs, least significant first.    *)
(***************************************************************************)
Limb == 2 ^ 16

Zero64 == <<0, 0, 0, 0>>

RECURSIVE AddLimbs(_, _, _, _)
AddLimbs(x, y, i, carry) ==
    IF i > 4 THEN <<>>
    ELSE LET s == x[i] + y[i] + carry
         IN  <<s % Limb>> \o AddLimbs(x, y, i + 1, s \div Limb)

\* u64::wrapping_add: the carry out of the top limb is dropped.
wrapping_add(x, y) == AddLimbs(x, y, 1, 0)

\* BuildHasher::hash_one under DeterministicHasherBuilder: every call builds
\* a fresh DefaultHasher with the same fixed keys, so the result is a fixed
\* function of the item alone.  The words below stand for its outputs; their
\* high limbs make the sums pass 2^64.
hash_one(item) ==
    CASE item = "p" -> <<40501, 17, 65535, 65535>>
      [] item = "q" -> <<65535, 65535, 3, 32768>>
      [] item = "r" -> <<1, 0, 65535, 49152>>

(***************************************************************************)
(* Multiset                                                                *)
(***************************************************************************)
\* Vec::contains: linear scan with ==.
contains(data, value) == \E i \in 1..Len(data) : data[i] = value

\* Multiset::insert
insert(data, value) == Append(data, value)

insert_unique_always(data, value) ==
    [data |-> insert(data, value), ret |-> TRUE]

\* Multiset::insert_unique: the new data and the returned bool.
insert_unique(data, value) ==
    IF contains(data, value)
    THEN [data |-> data, ret |-> FALSE]
    ELSE [data |-> insert(data, value), ret |-> TRUE]

\* free_indexes.iter_mut().enumerate().find(|(i, free)| **free && item == &b[*i])
\* as the index found, 0 for None.
FindFree(item, y, free) ==
    LET hits == {i \in 1..Len(y) : free[i] /\ item = y[i]}
    IN  IF hits = {} THEN 0
        ELSE CHOOSE i \in hits : \A j \in hits : i <= j

RECURSIVE CompareLoop(_, _, _, _)
CompareLoop(x, y, k, free) ==
    IF k > Len(x) THEN TRUE
    ELSE LET i == FindFree(x[k], y, free)
         IN  IF i = 0 THEN FALSE
             ELSE CompareLoop(x, y, k + 1, [free EXCEPT ![i] = FALSE])

RECURSIVE CompareLoopNoMark(_, _, _, _)
CompareLoopNoMark(x, y, k, free) ==
    IF k > Len(x) THEN TRUE
    ELSE LET i == FindFree(x[k], y, free)
         IN  IF i = 0 THEN FALSE
             ELSE CompareLoopNoMark(x, y, k + 1, free)

compare_unordered_nomark(x, y) ==
    IF Len(x) = Len(y)
    THEN CompareLoopNoMark(x, y, 1, [i \in 1..Len(x) |-> TRUE])
    ELSE FALSE

\* compare_unordered, which PartialEq for Multiset delegates to.
compare_unordered(x, y) ==
    IF Len(x) = Len(y)
    THEN CompareLoop(x, y, 1, [i \in 1..Len(x) |-> TRUE])
    ELSE FALSE

RECURSIVE HashLoop(_, _, _)
HashLoop(data, k, hash) ==
    IF k > Len(data) THEN hash
    ELSE HashLoop(data, k + 1, wrapping_add(hash, hash_one(data[k])))

RECURSIVE HashLoopShift(_, _, _)
HashLoopShift(data, k, hash) ==
    IF k > Len(data) THEN hash
    ELSE HashLoopShift(data, k + 1,
            wrapping_add(wrapping_add(hash, hash), hash_one(data[k])))

multiset_hash_shift(data) == HashLoopShift(data, 1, Zero64)

\* impl Hash for Multiset: the u64 handed to state.write_u64.
multiset_hash(data) == HashLoop(data, 1, Zero64)

(***************************************************************************)
(* List codec: List -> rdf:first / rdf:rest chain                          *)
(***************************************************************************)
\* Objects a List may hold (first.inner() of each IndexedObject).
Objects == {"x", "y"}

RDF_FIRST == "rdf:first"

RDF_REST == "rdf:rest"

\* All sequences over S of length at most n.
SeqUpTo(S, n) == UNION {[1..k -> S] : k \in 0..n}

split_first_skip(k) ==
    IF k > Len(elems) THEN [some |-> FALSE]
    ELSE [some |-> TRUE, first |-> elems[k], rest |-> k + 2]

split_first_same(k) ==
    IF k > Len(elems) THEN [some |-> FALSE]
    ELSE [some |-> TRUE, first |-> elems[1], rest |-> k + 1]

\* self.0.split_first() on the slice elems[k..]: None for the empty slice,
\* else the first element and the start of the remaining slice.
split_first(k) ==
    IF k > Len(elems) THEN [some |-> FALSE]
    ELSE [some |-> TRUE, first |-> elems[k], rest |-> k + 1]

InitList ==
    /\ DocIdle
    /\ MultisetIdle
    /\ LiteralIdle
    /\ elems \in SeqUpTo(Objects, MaxListLen)
    /\ stack = <<>>
    /\ triples = <<>>
    /\ ended = <<>>
    /\ minted = 0
    /\ lstatus = "idle"

\* impl LinkedDataResource for Rest, interpretation: Uninterpreted(None), so a
\* visitor has no identifier for the link and gives it a fresh subject.
rest_interpretation == [uninterpreted |-> TRUE, id |-> 0]

\* The subject a visitor gives an object with this interpretation.
SubjectFor(interpretation) ==
    IF interpretation.uninterpreted THEN minted + 1 ELSE interpretation.id

Top == stack[Len(stack)]

SetTop(f) == [stack EXCEPT ![Len(stack)] = f]

\* List::visit_subject: the visitor of the list's own (unlabeled) subject is
\* handed to Rest(self.as_slice()).visit_subject.
ListVisitSubject ==
    /\ lstatus = "idle"
    /\ lstatus' = "running"
    /\ minted' = 1
    /\ stack' = <<[subject |-> 1, at |-> 1, pc |-> "split"]>>
    /\ UNCHANGED <<elems, triples, ended, msVars, litVars, docVars>>

\* Rest::visit_subject, non-empty slice: visitor.predicate(RDF_FIRST, first.inner())?
RestPredicateFirst ==
    /\ lstatus = "running"
    /\ Top.pc = "split"
    /\ split_first(Top.at).some
    /\ triples' = Append(triples, [s |-> Top.subject, p |-> RDF_FIRST,
                                   o |-> [elem |-> split_first(Top.at).first]])
    /\ stack' = SetTop([Top EXCEPT !.pc = "rest"])
    /\ UNCHANGED <<elems, ended, minted, lstatus, msVars, litVars, docVars>>

\* Rest::visit_subject: visitor.predicate(RDF_REST, &Rest(rest))?  The object
\* is Uninterpreted(None), so the visitor gives it a fresh unlabeled subject
\* and visits it (Rest::visit_objects -> object -> Rest::visit_subject)
\* before the call returns.
RestPredicateRest ==
    /\ lstatus = "running"
    /\ Top.pc = "rest"
    /\ minted' = minted + 1
    /\ triples' = Append(triples, [s |-> Top.subject, p |-> RDF_REST,
                                   o |-> [link |-> SubjectFor(rest_interpretation)]])
    /\ stack' = Append(SetTop([Top EXCEPT !.pc = "end"]),
                       [subject |-> SubjectFor(rest_interpretation),
                        at |-> split_first(Top.at).rest, pc |-> "split"])
    /\ UNCHANGED <<elems, ended, lstatus, msVars, litVars, docVars>>

\* Rest::visit_subject: visitor.end(), reached directly on the empty slice and
\* after both predicates otherwise.
RestEnd ==
    /\ lstatus = "running"
    /\ \/ Top.pc = "end"
       \/ Top.pc = "split" /\ ~split_first(Top.at).some
    /\ ended' = Append(ended, Top.subject)
    /\ stack' = SubSeq(stack, 1, Len(stack) - 1)
    /\ lstatus' = IF Len(stack) = 1 THEN "ok" ELSE "running"
    /\ UNCHANGED <<elems, triples, minted, msVars, litVars, docVars>>

\* A visitor callback returns Err: every `?` on the way up returns it, no
\* further callback is made.
RestVisitorError ==
    /\ lstatus = "running"
    /\ lstatus' = "err"
    /\ stack' = <<>>
    /\ UNCHANGED <<elems, triples, ended, minted, msVars, litVars, docVars>>

NextList ==
    \/ ListVisitSubject
    \/ RestPredicateFirst
    \/ RestPredicateRest
    \/ RestEnd
    \/ RestVisitorError

SpecList == InitList /\ [][NextList]_vars

(***************************************************************************)
(* Literal-to-value mapper                                                 *)
(***************************************************************************)
Digits == {"0", "1", "2", "3", "4", "5", "6", "7", "8", "9"}

\* json_syntax::Number::new: the JSON number grammar
\*   -? (0 | [1-9][0-9]*) (. [0-9]+)? ([eE] [+-]? [0-9]+)?
\* as the automaton run from character i in state st.
RECURSIVE NumberScan(_, _, _)
NumberScan(s, i, st) ==
    IF i > Len(s)
    THEN st \in {"Zero", "NonZero", "FractionalRest", "ExponentRest"}
    ELSE LET c == s[i]
             nz == c \in Digits \ {"0"}
             d == c \in Digits
             e == c \in {"e", "E"}
             nxt ==
                CASE st = "Init" /\ c = "-" -> "FirstDigit"
                  [] st \in {"Init", "FirstDigit"} /\ c = "0" -> "Zero"
                  [] st \in {"Init", "FirstDigit"} /\ nz -> "NonZero"
                  [] st = "NonZero" /\ d -> "NonZero"
                  [] st \in {"Zero", "NonZero"} /\ c = "." -> "FractionalFirst"
                  [] st \in {"Zero", "NonZero", "FractionalRest"} /\ e -> "ExponentSign"
                  [] st \in {"FractionalFirst", "FractionalRest"} /\ d -> "FractionalRest"
                  [] st = "ExponentSign" /\ c \in {"+", "-"} -> "ExponentFirst"
                  [] st \in {"ExponentSign", "ExponentFirst", "ExponentRest"} /\ d
                        -> "ExponentRest"
                  [] OTHER -> "Invalid"
         IN  IF nxt = "Invalid" THEN FALSE ELSE NumberScan(s, i + 1, nxt)

json_number_new(s) == NumberScan(s, 1, "Init")

\* The xsd_types::Value variants xsd_to_value renders as numbers.
NumericKinds ==
    {"Decimal", "Integer", "NonPositiveInteger", "NegativeInteger", "Long", "Int",
     "Short", "Byte", "NonNegativeInteger", "UnsignedLong", "UnsignedInt",
     "UnsignedShort", "UnsignedByte", "PositiveInteger"}

\* xsd_types::Value::datatype().iri()
XsdIri(kind) ==
    CASE kind = "Boolean" -> "xsd:boolean"
      [] kind = "String" -> XSD_STRING
      [] kind = "Decimal" -> "xsd:decimal"
      [] kind = "Integer" -> "xsd:integer"
      [] kind = "NonPositiveInteger" -> "xsd:nonPositiveInteger"
      [] kind = "NegativeInteger" -> "xsd:negativeInteger"
      [] kind = "Long" -> "xsd:long"
      [] kind = "Int" -> "xsd:int"
      [] kind = "Short" -> "xsd:short"
      [] kind = "Byte" -> "xsd:byte"
      [] kind = "NonNegativeInteger" -> "xsd:nonNegativeInteger"
      [] kind = "UnsignedLong" -> "xsd:unsignedLong"
      [] kind = "UnsignedInt" -> "xsd:unsignedInt"
      [] kind = "UnsignedShort" -> "xsd:unsignedShort"
      [] kind = "UnsignedByte" -> "xsd:unsignedByte"
      [] kind = "PositiveInteger" -> "xsd:positiveInteger"
      [] kind = "Double" -> "xsd:double"
      [] kind = "Date" -> "xsd:date"

\* Value::Literal(literal, ty), Value::LangString, Value::Json
MkValue(kind, s, ty, lang) == [kind |-> kind, s |-> s, ty |-> ty, lang |-> lang]

Returned(v, voc) == [panic |-> FALSE, v |-> v, vocabulary |-> voc]

Panicked(voc) == [panic |-> TRUE, v |-> NoValue, vocabulary |-> voc]

\* IriVocabulary::iri: Some(iri) for an interned handle, None otherwise.
vocabulary_iri(voc, handle) ==
    IF handle \in voc THEN [some |-> TRUE, iri |-> handle] ELSE [some |-> FALSE]

\* IriVocabularyMut::insert: interns the IRI and returns its handle.
vocabulary_insert(voc, iri) == [vocabulary |-> voc \cup {iri}, handle |-> iri]

\* LangString::new(value, language, direction): Err when neither a language
\* nor a direction is given.
lang_string_new(s, language, direction) ==
    IF language = "" /\ direction = ""
    THEN [ok |-> FALSE]
    ELSE [ok |-> TRUE, v |-> MkValue("LangString", s, "", language)]

\* xsd_to_value
xsd_to_value(voc, x) ==
    IF x.kind = "Boolean" THEN Returned(MkValue("Boolean", x.s, "", ""), voc)
    ELSE IF x.kind = "String" THEN Returned(MkValue("String", x.s, "", ""), voc)
    ELSE IF x.kind \in NumericKinds
    THEN IF json_number_new(x.s)
         THEN Returned(MkValue("Number", x.s, "", ""), voc)
         ELSE LET ins == vocabulary_insert(voc, XsdIri(x.kind))
              IN  Returned(MkValue("String", x.s, ins.handle, ""), ins.vocabulary)
    ELSE LET ins == vocabulary_insert(voc, XsdIri(x.kind))
         IN  Returned(MkValue("String", x.s, ins.handle, ""), ins.vocabulary)

\* literal_to_value: the Value and the vocabulary afterwards, or a panic from
\* one of the two unwrap() calls.
literal_to_value(voc, l) ==
    CASE l.tag = "Typed" ->
            LET r == vocabulary_iri(voc, l.iri)
            IN  IF ~r.some THEN Panicked(voc)
                ELSE Returned(MkValue("String", l.s,
                                      IF r.iri = XSD_STRING THEN "" ELSE l.iri, ""),
                              voc)
      [] l.tag = "Lang" ->
            LET r == lang_string_new(l.s, l.lang, "")
            IN  IF ~r.ok THEN Panicked(voc) ELSE Returned(r.v, voc)
      [] l.tag = "Xsd" -> xsd_to_value(voc, l)
      [] l.tag = "Json" -> Returned(MkValue("Json", l.s, "", ""), voc)

\* Lexical strings: valid JSON numbers, forms XSD allows and JSON does not,
\* and plain text.
Lexicals ==
    {<<"4", "2">>, <<"-", "7">>, <<"3", ".", "1", "4">>, <<"0">>,
     <<".", "5">>, <<"+", "1">>, <<"0", "1">>, <<"1", ".">>, Str_abc, <<>>}

BoolTexts == {<<"t", "r", "u", "e">>, <<"f", "a", "l", "s", "e">>}

\* Datatype handles a typed literal may carry; "ex:foreign" is never interned.
Handles == {XSD_STRING, "ex:custom", "xsd:integer", "xsd:boolean", "ex:foreign"}

Languages == {"fr", "en"}

\* The xsd_types::Value variants drawn as inputs.
InputKinds == {"Decimal", "Integer", "UnsignedByte", "Double", "Date"}

TypedLit(s, iri) == [tag |-> "Typed", s |-> s, iri |-> iri, lang |-> "", kind |-> ""]

LangLit(s, lang) == [tag |-> "Lang", s |-> s, iri |-> "", lang |-> lang, kind |-> ""]

XsdLit(kind, s) == [tag |-> "Xsd", s |-> s, iri |-> "", lang |-> "", kind |-> kind]

JsonLit(s) == [tag |-> "Json", s |-> s, iri |-> "", lang |-> "", kind |-> ""]

\* RdfLiteral<V>: Any(s, LiteralType::Any(iri)), Any(s, LiteralType::LangString(l)),
\* Xsd(value) and Json(json).
Literals ==
    {TypedLit(s, h) : s \in Lexicals, h \in Handles}
    \cup {LangLit(s, l) : s \in Lexicals, l \in Languages}
    \cup {XsdLit(k, s) : k \in InputKinds, s \in Lexicals}
    \cup {XsdLit("Boolean", s) : s \in BoolTexts}
    \cup {XsdLit("String", s) : s \in Lexicals}
    \cup {JsonLit(s) : s \in Lexicals}

InitLiteral ==
    /\ DocIdle
    /\ MultisetIdle
    /\ ListIdle
    /\ vocabulary = InitialVocabulary
    /\ lit = NoLiteral
    /\ mapped = [status |-> "none", v |-> NoValue]

\* One call literal_to_value(vocabulary, lit).  A panic ends the process.
MapLiteral ==
    \E l \in Literals :
        /\ mapped.status \in {"none", "ok"}
        /\ LET r == literal_to_value(vocabulary, l)
           IN  /\ lit' = l
               /\ vocabulary' = r.vocabulary
               /\ mapped' = [status |-> IF r.panic THEN "panic" ELSE "ok", v |-> r.v]
        /\ UNCHANGED <<msVars, listVars, docVars>>

NextLiteral == MapLiteral

SpecLiteral == InitLiteral /\ [][NextLiteral]_vars

(***************************************************************************)
(* Document, default-graph and named-graph serializers                     *)
(***************************************************************************)
IdTerm(id) == [tag |-> "Id", id |-> id, lit |-> NoLiteral]

LiteralTerm(l) == [tag |-> "Literal", id |-> "", lit |-> l]

\* IRIs and blank node identifiers a resource may resolve to.
Ids == {"ex:a", "_:b0"}

\* Literals a subject or a graph name may resolve to.
TermLiterals ==
    {XsdLit("Decimal", <<".", "5">>), TypedLit(Str_abc, "ex:foreign")}

\* What lexical_representation() may return: None, Some(Term::Id(id)),
\* Some(Term::Literal(lit)).
Terms ==
    {NoTerm} \cup {IdTerm(i) : i \in Ids} \cup {LiteralTerm(l) : l \in TermLiterals}

\* A resource handed to subject(): its lexical representation and whether
\* its visit_subject makes the node visitor return Err.
Subjects ==
    {[term |-> t, fails |-> FALSE] : t \in Terms}
    \cup {[term |-> t, fails |-> TRUE] : t \in {NoTerm} \cup {IdTerm(i) : i \in Ids}}

\* The resources drawn as subjects of a named graph.
GraphSubjects ==
    {[term |-> IdTerm("ex:a"), fails |-> FALSE],
     [term |-> NoTerm, fails |-> TRUE],
     [term |-> LiteralTerm(XsdLit("Decimal", <<".", "5">>)), fails |-> FALSE],
     [term |-> LiteralTerm(TypedLit(Str_abc, "ex:foreign")), fails |-> FALSE]}

\* The List as a subject: Uninterpreted(None), so no lexical representation.
ListSubjects == {[term |-> NoTerm, fails |-> f] : f \in BOOLEAN}

\* Object::Value(value)
ValueObject(v) == [kind |-> "Value", id |-> "", value |-> v, graph |-> NoGraph]

\* Object::node(node) for a node with the given id ("" for none) and graph
NodeObject(id, graph) == [kind |-> "Node", id |-> id, value |-> NoValue, graph |-> graph]

\* ExpandedDocument::insert / Graph::insert: the collection is unordered and
\* keeps one copy of equal objects.
collection_insert(objects, object) == objects \cup {object}

\* value.visit_subject(SerializeNode::new(vocabulary, interpretation, id)):
\* the node carrying that id, or the visitor's error.
visit_subject_node(id, subject) ==
    IF subject.fails
    THEN [ok |-> FALSE, node |-> NoObject]
    ELSE [ok |-> TRUE, node |-> NodeObject(id, NoGraph)]

Outcome(o, d, voc, err) == [outcome |-> o, doc |-> d, vocabulary |-> voc, error |-> err]

default_graph_subject_as_node(voc, d, subject) ==
    LET id == IF subject.term.tag = "Id" THEN subject.term.id ELSE ""
        r == visit_subject_node(id, subject)
    IN  IF ~r.ok THEN Outcome("err", d, voc, "VisitError")
        ELSE Outcome("ok", collection_insert(d, r.node), voc, "")

\* SerializeDefaultGraph::subject on document d.
default_graph_subject(voc, d, subject) ==
    IF subject.term.tag = "Literal"
    THEN LET r == literal_to_value(voc, subject.term.lit)
         IN  IF r.panic THEN Outcome("panic", d, voc, "")
             ELSE Outcome("ok", collection_insert(d, ValueObject(r.v)), r.vocabulary, "")
    ELSE LET id == IF subject.term.tag = "Id" THEN subject.term.id ELSE ""
             r == visit_subject_node(id, subject)
         IN  IF ~r.ok THEN Outcome("err", d, voc, "VisitError")
             ELSE Outcome("ok", collection_insert(d, r.node), voc, "")

\* serialize_object_with: the Object for one subject of a named graph.
serialize_object_with(voc, subject) ==
    IF subject.term.tag = "Literal"
    THEN LET r == literal_to_value(voc, subject.term.lit)
         IN  IF r.panic THEN [outcome |-> "panic", object |-> NoObject, vocabulary |-> voc]
             ELSE [outcome |-> "ok", object |-> ValueObject(r.v),
                   vocabulary |-> r.vocabulary]
    ELSE LET id == IF subject.term.tag = "Id" THEN subject.term.id ELSE ""
             r == visit_subject_node(id, subject)
         IN  IF ~r.ok THEN [outcome |-> "err", object |-> NoObject, vocabulary |-> voc]
             ELSE [outcome |-> "ok", object |-> r.node, vocabulary |-> voc]

named_graph_node_anonymous(term) ==
    CASE term.tag = "Literal" -> [ok |-> FALSE, node |-> NoObject]
      [] OTHER -> [ok |-> TRUE, node |-> NodeObject("", NoGraph)]

named_graph_node_unchecked(term) ==
    IF term.tag = "Id"
    THEN [ok |-> TRUE, node |-> NodeObject(term.id, NoGraph)]
    ELSE [ok |-> TRUE, node |-> NodeObject("", NoGraph)]

\* SerializeExpandedDocument::named_graph, the match on the naming subject:
\* Err(InvalidGraph) for a literal, else the node the graph will hang on.
named_graph_node(term) ==
    CASE term.tag = "Literal" -> [ok |-> FALSE, node |-> NoObject]
      [] term.tag = "Id" -> [ok |-> TRUE, node |-> NodeObject(term.id, NoGraph)]
      [] OTHER -> [ok |-> TRUE, node |-> NodeObject("", NoGraph)]

list_visit_next_end_first(made) ==
    IF made = <<>> THEN "end" ELSE "default_graph"

\* impl LinkedData for List, visit: visitor.default_graph(self)?; visitor.end()
list_visit_next(made) ==
    IF made = <<>> THEN "default_graph" ELSE "end"

\* impl LinkedDataGraph for List, visit_graph: visitor.subject(self)?; visitor.end()
list_visit_graph_next(n) ==
    IF n = 0 THEN "subject" ELSE "end"

\* The callback the driving visit() may make next on the document visitor.
MayCall(cb) ==
    /\ dstate = "running"
    /\ scope.kind = "none"
    /\ driver = "List" => list_visit_next(calls) = cb
    /\ cb # "end" => Len(calls) < MaxCalls

\* The callback the driving visit_graph() may make next on the graph visitor.
MayCallInGraph(cb) ==
    /\ dstate = "running"
    /\ scope.kind # "none"
    /\ driver = "List" => list_visit_graph_next(scope.n) = cb
    /\ cb # "end" => scope.n < MaxSubjects

Called(cb) == Append(calls, [cb |-> cb, out |-> "open"])

Closed(out) == [calls EXCEPT ![Len(calls)].out = out]

Started(cb, term) ==
    [cb |-> cb, term |-> term, outcome |-> "", before |-> doc, counts |-> counts,
     vocabulary |-> vocabulary]

InitDoc ==
    /\ MultisetIdle
    /\ ListIdle
    /\ LiteralIdle
    /\ driver \in {"List", "Generic"}
    /\ dstate = "running"
    /\ NewDocument

\* SerializeExpandedDocument::default_graph: a SerializeDefaultGraph over
\* self.result is handed to value.visit_graph.
DefaultGraph ==
    /\ MayCall("default_graph")
    /\ calls' = Called("default_graph")
    /\ scope' = [NoScope EXCEPT !.kind = "default"]
    /\ lastcb' = Started("default_graph", NoTerm)
    /\ UNCHANGED <<driver, dstate, doc, ret, counts, vocabulary, lit, mapped,
                   msVars, listVars>>

\* What a graph-level callback that returned Err or panicked does to the run:
\* every `?` up to visit() returns the error; a panic ends the process.
Abort(outcome, error) ==
    /\ calls' = Closed(outcome)
    /\ scope' = NoScope
    /\ dstate' = IF outcome = "panic" THEN "panicked" ELSE "failed"
    /\ ret' = IF outcome = "panic" THEN NoReturn
              ELSE [kind |-> "err", doc |-> {}, error |-> error]

\* SerializeDefaultGraph::subject
DefaultGraphSubject ==
    \E subject \in (IF driver = "List" THEN ListSubjects ELSE Subjects) :
        /\ MayCallInGraph("subject")
        /\ scope.kind = "default"
        /\ LET r == default_graph_subject(vocabulary, doc, subject)
           IN  /\ lastcb' = [Started("subject", subject.term) EXCEPT !.outcome = r.outcome]
               /\ doc' = r.doc
               /\ vocabulary' = r.vocabulary
               /\ counts' = [subjects |-> counts.subjects + 1,
                             inserts |-> counts.inserts
                                         + (IF r.outcome = "ok" THEN 1 ELSE 0)]
               /\ IF r.outcome = "ok"
                  THEN /\ scope' = [scope EXCEPT !.n = scope.n + 1]
                       /\ UNCHANGED <<calls, dstate, ret>>
                  ELSE Abort(r.outcome, r.error)
        /\ UNCHANGED <<driver, lit, mapped, msVars, listVars>>

\* SerializeDefaultGraph::end: default_graph returns Ok(()).
DefaultGraphEnd ==
    /\ MayCallInGraph("end")
    /\ scope.kind = "default"
    /\ calls' = Closed("ok")
    /\ scope' = NoScope
    /\ lastcb' = Started("graph_end", NoTerm)
    /\ UNCHANGED <<driver, dstate, doc, ret, counts, vocabulary, lit, mapped,
                   msVars, listVars>>

\* SerializeExpandedDocument::named_graph up to value.visit_graph(serializer):
\* a literal name returns Err(InvalidGraph) at once, otherwise a SerializeGraph
\* with an empty Graph is handed to value.visit_graph.
NamedGraph ==
    \E term \in Terms :
        /\ MayCall("named_graph")
        /\ LET r == named_graph_node(term)
           IN  IF r.ok
               THEN /\ calls' = Called("named_graph")
                    /\ scope' = [kind |-> "named", node |-> r.node, graph |-> {},
                                 n |-> 0]
                    /\ lastcb' = Started("named_graph", term)
                    /\ UNCHANGED <<dstate, ret>>
               ELSE /\ calls' = Append(calls, [cb |-> "named_graph", out |-> "err"])
                    /\ scope' = NoScope
                    /\ dstate' = "failed"
                    /\ ret' = [kind |-> "err", doc |-> {}, error |-> "InvalidGraph"]
                    /\ lastcb' = [Started("named_graph", term)
                                    EXCEPT !.outcome = "InvalidGraph"]
        /\ UNCHANGED <<driver, doc, counts, vocabulary, lit, mapped, msVars, listVars>>

\* SerializeGraph::subject
NamedGraphSubject ==
    \E subject \in GraphSubjects :
        /\ MayCallInGraph("subject")
        /\ scope.kind = "named"
        /\ LET r == serialize_object_with(vocabulary, subject)
           IN  /\ lastcb' = [Started("graph_subject", subject.term)
                                EXCEPT !.outcome = r.outcome]
               /\ vocabulary' = r.vocabulary
               /\ counts' = [counts EXCEPT !.subjects = counts.subjects + 1]
               /\ IF r.outcome = "ok"
                  THEN /\ scope' = [scope EXCEPT
                                      !.n = scope.n + 1,
                                      !.graph = collection_insert(scope.graph, r.object)]
                       /\ UNCHANGED <<calls, dstate, ret>>
                  ELSE Abort(r.outcome, "VisitError")
        /\ UNCHANGED <<driver, doc, lit, mapped, msVars, listVars>>

\* SerializeGraph::end returns the Graph; named_graph stores it in node.graph
\* and inserts the node into self.result.
NamedGraphEnd ==
    /\ MayCallInGraph("end")
    /\ scope.kind = "named"
    /\ doc' = collection_insert(doc,
                [scope.node EXCEPT !.graph = [some |-> TRUE, objects |-> scope.graph]])
    /\ counts' = [counts EXCEPT !.inserts = counts.inserts + 1]
    /\ calls' = Closed("ok")
    /\ scope' = NoScope
    /\ lastcb' = Started("graph_end", NoTerm)
    /\ UNCHANGED <<driver, dstate, ret, vocabulary, lit, mapped, msVars, listVars>>

\* SerializeExpandedDocument::end: consumes the serializer, returns Ok(result).
End ==
    /\ MayCall("end")
    /\ calls' = Append(calls, [cb |-> "end", out |-> "ok"])
    /\ dstate' = "done"
    /\ ret' = [kind |-> "ok", doc |-> doc, error |-> ""]
    /\ lastcb' = Started("end", NoTerm)
    /\ UNCHANGED <<driver, doc, scope, counts, vocabulary, lit, mapped, msVars, listVars>>

NextDoc ==
    \/ DefaultGraph
    \/ DefaultGraphSubject
    \/ DefaultGraphEnd
    \/ NamedGraph
    \/ NamedGraphSubject
    \/ NamedGraphEnd
    \/ End

SpecDoc == InitDoc /\ [][NextDoc]_vars

(***************************************************************************)
(* Multiset operations as actions                                          *)
(***************************************************************************)
\* Multiset::new, twice.
InitMultiset ==
    /\ DocIdle
    /\ ListIdle
    /\ LiteralIdle
    /\ a = <<>>
    /\ b = <<>>
    /\ dedup = TRUE
    /\ last = [op |-> "new"]

InsertA ==
    \E v \in Elems :
        /\ last.op # "off"
        /\ Len(a) < MaxLen
        /\ a' = insert(a, v)
        /\ dedup' = FALSE
        /\ last' = [op |-> "insert", on |-> "a", value |-> v, before |-> a]
        /\ UNCHANGED <<b, listVars, litVars, docVars>>

InsertB ==
    \E v \in Elems :
        /\ last.op # "off"
        /\ Len(b) < MaxLen
        /\ b' = insert(b, v)
        /\ last' = [op |-> "insert", on |-> "b", value |-> v, before |-> b]
        /\ UNCHANGED <<a, dedup, listVars, litVars, docVars>>

InsertUniqueA ==
    \E v \in Elems :
        /\ last.op # "off"
        /\ Len(a) < MaxLen
        /\ LET r == insert_unique(a, v)
           IN  /\ a' = r.data
               /\ last' = [op |-> "insert_unique", on |-> "a", value |-> v,
                           before |-> a, ret |-> r.ret]
        /\ UNCHANGED <<b, dedup, listVars, litVars, docVars>>

Compare ==
    /\ last.op # "off"
    /\ last' = [op |-> "eq", ab |-> compare_unordered(a, b),
                ba |-> compare_unordered(b, a)]
    /\ UNCHANGED <<a, b, dedup, listVars, litVars, docVars>>

HashBoth ==
    /\ last.op # "off"
    /\ last' = [op |-> "hash", ha |-> multiset_hash(a), hb |-> multiset_hash(b),
                eq |-> compare_unordered(a, b)]
    /\ UNCHANGED <<a, b, dedup, listVars, litVars, docVars>>

NextMultiset ==
    \/ InsertA
    \/ InsertB
    \/ InsertUniqueA
    \/ Compare
    \/ HashBoth

SpecMultiset == InitMultiset /\ [][NextMultiset]_vars

(***************************************************************************)
(* The whole: a run exercises one of the four components                   *)
(***************************************************************************)
Init == InitMultiset \/ InitList \/ InitLiteral \/ InitDoc

Next == NextMultiset \/ NextList \/ NextLiteral \/ NextDoc

Spec == Init /\ [][Next]_vars

(***************************************************************************)
(* Reference notions the claims are stated with                            *)
(***************************************************************************)
Count(s, e) == Cardinality({i \in 1..Len(s) : s[i] = e})

Bijections(n) == {p \in [1..n -> 1..n] : \A i, j \in 1..n : p[i] = p[j] => i = j}

\* y is x rearranged by some permutation of positions
PermutationOf(x, y) ==
    /\ Len(x) = Len(y)
    /\ \E p \in Bijections(Len(x)) : \A i \in 1..Len(x) : y[i] = x[p[i]]

NoDuplicates(s) == \A i, j \in 1..Len(s) : s[i] = s[j] => i = j

\* Column i of the per-element hashes of s added up as plain integers, each
\* value weighted by its multiplicity.
RECURSIVE ColumnSum(_, _, _)
ColumnSum(S, s, i) ==
    IF S = {} THEN 0
    ELSE LET e == CHOOSE x \in S : TRUE
         IN  Count(s, e) * hash_one(e)[i] + ColumnSum(S \ {e}, s, i)

\* The carry into limb i of that sum.
RECURSIVE CarryInto(_, _)
CarryInto(s, i) ==
    IF i = 1 THEN 0
    ELSE (ColumnSum(Elems, s, i - 1) + CarryInto(s, i - 1)) \div Limb

\* the sum of the per-element hashes of the bag of s, modulo 2^64
BagHashSum(s) == [i \in 1..4 |-> (ColumnSum(Elems, s, i) + CarryInto(s, i)) % Limb]

\* C1: Multiset equality is a bag comparison: a multiset equals every
\* permutation of itself, in both directions, and multisets of different
\* length or with different multiplicities of some value are not equal.
C1_EqualityIsBagComparison ==
    last.op = "eq" =>
        /\ PermutationOf(a, b) => (last.ab /\ last.ba)
        /\ Len(a) # Len(b) => (~last.ab /\ ~last.ba)
        /\ (\E e \in Elems : Count(a, e) # Count(b, e)) => (~last.ab /\ ~last.ba)

C1_Witness ==
    /\ last.op = "eq"
    /\ Len(a) = 3 /\ a # b /\ PermutationOf(a, b)
    /\ Count(a, "p") = 2
    /\ last.ab /\ last.ba

\* C2: Multiset hashing is order-independent: the value written is the sum
\* modulo 2^64 of the per-element hashes, permutations hash alike, and
\* multisets that compare equal hash alike.
C2_HashOrderIndependent ==
    last.op = "hash" =>
        /\ last.ha = BagHashSum(a)
        /\ last.hb = BagHashSum(b)
        /\ PermutationOf(a, b) => last.ha = last.hb
        /\ last.eq => last.ha = last.hb

C2_Witness ==
    /\ last.op = "hash"
    /\ Len(a) = 3 /\ a # b /\ PermutationOf(a, b)
    /\ last.eq /\ last.ha = last.hb
    /\ last.ha # Zero64

\* C3: insert_unique appends v at the end only when no equal element is
\* present and returns true exactly then; on false the multiset is unchanged;
\* a multiset built by insert_unique alone holds no two equal elements;
\* insert always appends, duplicates included.
C3_InsertUnique ==
    /\ last.op = "insert_unique" =>
          /\ last.ret = ~(\E i \in 1..Len(last.before) : last.before[i] = last.value)
          /\ last.ret => a = last.before \o <<last.value>>
          /\ ~last.ret => a = last.before
    /\ dedup => NoDuplicates(a)
    /\ last.op = "insert" =>
          LET now == IF last.on = "a" THEN a ELSE b
          IN  now = last.before \o <<last.value>>

C3_Witness ==
    /\ last.op = "insert_unique" /\ ~last.ret
    /\ dedup /\ Len(a) = 2
    /\ \E i \in 1..Len(b) : \E j \in 1..Len(b) : i # j /\ b[i] = b[j]

(***************************************************************************)
(* Decoding an rdf:first / rdf:rest chain back to a sequence               *)
(***************************************************************************)
WithPredicate(s, p) == {i \in 1..Len(triples) : triples[i].s = s /\ triples[i].p = p}

\* Rebuild the ordered sequence from the chain rooted at subject s: a subject
\* with neither predicate ends the chain; a subject with only one of the two
\* predicates, several values for one, or a subject met twice is malformed.
RECURSIVE DecodeChain(_, _)
DecodeChain(s, seen) ==
    LET f == WithPredicate(s, RDF_FIRST)
        r == WithPredicate(s, RDF_REST)
    IN  IF s \in seen THEN [ok |-> FALSE, seq |-> <<>>]
        ELSE IF f = {} /\ r = {} THEN [ok |-> TRUE, seq |-> <<>>]
        ELSE IF Cardinality(f) # 1 \/ Cardinality(r) # 1
             THEN [ok |-> FALSE, seq |-> <<>>]
        ELSE LET fi == CHOOSE i \in f : TRUE
                 ri == CHOOSE i \in r : TRUE
                 tail == DecodeChain(triples[ri].o.link, seen \cup {s})
             IN  [ok |-> tail.ok, seq |-> <<triples[fi].o.elem>> \o tail.seq]

\* C6: encoding a List of N elements emits exactly 2N triples as a singly
\* linked chain: link k gets one rdf:first (element k) followed by one
\* rdf:rest (link k+1), links are distinct fresh subjects, the final link
\* gets no predicate, every link signals end exactly once, and the encoding
\* is over after N+1 subject visits.
C6_ListChainShape ==
    /\ lstatus = "ok" =>
        LET N == Len(elems)
        IN  /\ Len(triples) = 2 * N
            /\ minted = N + 1
            /\ Len(ended) = N + 1
            /\ \E link \in [1..(N + 1) -> 1..minted] :
                  /\ link[1] = 1
                  /\ \A i, j \in 1..(N + 1) : link[i] = link[j] => i = j
                  /\ \A k \in 1..N :
                        \E i, j \in 1..Len(triples) :
                            /\ i < j
                            /\ WithPredicate(link[k], RDF_FIRST) = {i}
                            /\ WithPredicate(link[k], RDF_REST) = {j}
                            /\ triples[i].o = [elem |-> elems[k]]
                            /\ triples[j].o = [link |-> link[k + 1]]
                  /\ \A i \in 1..Len(triples) : triples[i].s # link[N + 1]
                  /\ \A k \in 1..(N + 1) :
                        Cardinality({i \in 1..Len(ended) : ended[i] = link[k]}) = 1
    /\ lstatus = "running" =>
        /\ minted <= Len(elems) + 1
        /\ ENABLED (RestPredicateFirst \/ RestPredicateRest \/ RestEnd)

C6_Witness ==
    /\ lstatus = "ok"
    /\ Len(elems) = MaxListLen
    /\ Len(triples) = 2 * MaxListLen
    /\ Len(ended) = MaxListLen + 1

\* C7: encoding a sequence of N >= 0 elements and decoding the chain from its
\* root yields the same elements in the same order; N = 0 gives no triple
\* and decodes to the empty sequence.
C7_ListRoundTrip ==
    lstatus = "ok" =>
        /\ DecodeChain(1, {}) = [ok |-> TRUE, seq |-> elems]
        /\ elems = <<>> => triples = <<>>

C7_Witness ==
    /\ lstatus = "ok"
    /\ Len(elems) = MaxListLen
    /\ elems[1] # elems[2]
    /\ DecodeChain(1, {}).seq = elems

\* The datatype of a typed literal, as far as the vocabulary resolves it.
IsPlainString(l) == l.tag = "Typed" /\ l.iri = XSD_STRING

\* The six mapping rules, as the Value each literal kind must yield.
RuleValue(l) ==
    CASE l.tag = "Lang" -> MkValue("LangString", l.s, "", l.lang)
      [] l.tag = "Json" -> MkValue("Json", l.s, "", "")
      [] IsPlainString(l) -> MkValue("String", l.s, "", "")
      [] l.tag = "Xsd" /\ l.kind = "String" -> MkValue("String", l.s, "", "")
      [] l.tag = "Xsd" /\ l.kind = "Boolean" -> MkValue("Boolean", l.s, "", "")
      [] l.tag = "Xsd" /\ l.kind \in NumericKinds ->
            IF json_number_new(l.s)
            THEN MkValue("Number", l.s, "", "")
            ELSE MkValue("String", l.s, XsdIri(l.kind), "")
      [] l.tag = "Xsd" -> MkValue("String", l.s, XsdIri(l.kind), "")
      [] l.tag = "Typed" -> MkValue("String", l.s, l.iri, "")

\* C4: literal_to_value follows the six mapping rules for every literal
\* kind: language-tagged -> LangString, JSON -> Json, xsd:string -> untagged
\* String, boolean -> Boolean, numeric -> Number if a JSON number else String
\* tagged with the XSD datatype, any other typed literal -> String tagged
\* with its datatype.
C4_SixMappingRules ==
    lit # NoLiteral => (mapped.status = "ok" /\ mapped.v = RuleValue(lit))

\* The rules hold of every Value the mapper does return.
C4_RulesWhenReturned ==
    mapped.status = "ok" => mapped.v = RuleValue(lit)

\* C5: the mapper is total: every literal, a datatype handle the vocabulary
\* cannot resolve included, gets a Value and no call ends in a failed unwrap.
C5_MapperTotal ==
    mapped.status # "panic"

CallNames == [i \in 1..Len(calls) |-> calls[i].cb]

IsPrefix(x, y) == Len(x) <= Len(y) /\ \A i \in 1..Len(x) : x[i] = y[i]

\* C8: named_graph with a naming subject that resolves to a literal yields
\* InvalidGraph: the graph's contents are not visited, nothing is inserted,
\* and the caller of the serialization gets the error and no document.
C8_NamedGraphLiteralRejected ==
    /\ (lastcb.cb = "named_graph" /\ lastcb.term.tag = "Literal") =>
          /\ lastcb.outcome = "InvalidGraph"
          /\ ret = [kind |-> "err", doc |-> {}, error |-> "InvalidGraph"]
          /\ dstate = "failed"
          /\ scope = NoScope
          /\ counts = lastcb.counts
          /\ doc = lastcb.before
          /\ vocabulary = lastcb.vocabulary
    /\ dstate = "failed" => (ret.kind = "err" /\ ~ENABLED NextDoc)
    /\ ret.kind = "ok" => \A i \in 1..Len(calls) : calls[i].out = "ok"

C8_Witness ==
    /\ lastcb.cb = "named_graph" /\ lastcb.term.tag = "Literal"
    /\ lastcb.outcome = "InvalidGraph"
    /\ Cardinality(doc) = 2
    /\ ret.kind = "err" /\ ret.error = "InvalidGraph"

\* C9: each successful subject callback of the default-graph visitor inserts
\* exactly one top-level object: the literal mapper's Value for a literal
\* subject (no node is built), otherwise a Node carrying the subject's
\* identifier, or no id when it has no lexical representation; a failing
\* node visit inserts nothing.
C9_DefaultGraphSubject ==
    lastcb.cb = "subject" =>
        LET t == lastcb.term
            m == literal_to_value(lastcb.vocabulary, t.lit)
            obj == CASE t.tag = "Literal" -> ValueObject(m.v)
                     [] t.tag = "Id" -> NodeObject(t.id, NoGraph)
                     [] OTHER -> NodeObject("", NoGraph)
        IN  /\ lastcb.outcome = "ok" =>
                /\ doc = lastcb.before \cup {obj}
                /\ counts.inserts = lastcb.counts.inserts + 1
                /\ t.tag = "Literal" => (~m.panic /\ obj.kind = "Value")
                /\ \A o \in doc \ lastcb.before : o.kind \in {"Value", "Node"}
            /\ lastcb.outcome # "ok" =>
                /\ doc = lastcb.before
                /\ counts.inserts = lastcb.counts.inserts
                /\ dstate \in {"failed", "panicked"}

C9_Witness ==
    /\ lastcb.cb = "subject" /\ lastcb.outcome = "ok"
    /\ lastcb.term.tag = "Literal"
    /\ \E o \in lastcb.before : o.kind = "Node" /\ o.id = "ex:a"
    /\ \E o \in doc \ lastcb.before : o.kind = "Value"

\* C10 as stated: the callbacks of every run are exactly one default_graph,
\* then named_graph calls, then end, and the serializer accepts no other
\* order.
C10_CallProtocol ==
    /\ Len(calls) >= 1 => CallNames[1] = "default_graph"
    /\ \A i \in 2..Len(calls) : CallNames[i] # "default_graph"
    /\ \A i \in 1..Len(calls) : CallNames[i] = "end" => i = Len(calls)
    /\ ret.kind = "ok" => CallNames[Len(calls)] = "end"

\* C10 amended: the document is returned only by end, which consumes the
\* serializer (no callback follows it) and returns the accumulated result;
\* List's own visit makes exactly default_graph, then end.
C10_ProtocolAsImplemented ==
    /\ ret.kind = "ok" <=> (calls # <<>> /\ CallNames[Len(calls)] = "end")
    /\ ret.kind = "ok" => (ret.doc = doc /\ dstate = "done" /\ ~ENABLED NextDoc)
    /\ \A i \in 1..Len(calls) : CallNames[i] = "end" => i = Len(calls)
    /\ driver = "List" =>
          /\ IsPrefix(CallNames, <<"default_graph", "end">>)
          /\ dstate = "done" => CallNames = <<"default_graph", "end">>

C10_Witness ==
    /\ driver = "List"
    /\ dstate = "done"
    /\ CallNames = <<"default_graph", "end">>
    /\ ret.kind = "ok" /\ Cardinality(ret.doc) = 1

\* The identifier a term gives a node: the IRI or blank node it resolves to,
\* "" for none.
IdOf(term) == IF term.tag = "Id" THEN term.id ELSE ""

\* The object one subject of a graph is serialized to.
ObjectOf(voc, term) ==
    IF term.tag = "Literal"
    THEN ValueObject(literal_to_value(voc, term.lit).v)
    ELSE NodeObject(IdOf(term), NoGraph)

\* A named_graph call is accepted and its graph visitor opened.
GraphOpened == scope.kind = "none" /\ scope'.kind = "named"

\* A subject of the open named graph is serialized and the graph goes on.
GraphSubjectDone == scope.kind = "named" /\ scope'.kind = "named"

\* A subject of the open named graph fails: Err or a failed unwrap.
GraphSubjectFailed == scope.kind = "named" /\ dstate' \in {"failed", "panicked"}

\* The open named graph ends and named_graph returns Ok(()).
GraphClosed == scope.kind = "named" /\ scope'.kind = "none" /\ dstate' = "running"

\* C11: each successful named_graph call inserts exactly one top-level
\* object, a Node whose graph field holds the objects of the subjects visited
\* in that graph and whose id is the naming subject's IRI or blank node (no
\* id when it has no lexical representation); the document is left alone
\* until the whole graph has been serialized, and when a subject of the graph
\* fails the error is returned and no node is inserted.
C11_NamedGraphNode ==
    [][ /\ GraphOpened =>
            /\ lastcb'.cb = "named_graph" /\ lastcb'.term.tag # "Literal"
            /\ scope'.node = NodeObject(IdOf(lastcb'.term), NoGraph)
            /\ scope'.graph = {} /\ scope'.n = 0
            /\ doc' = doc /\ counts' = counts
        /\ GraphSubjectDone =>
            /\ lastcb'.cb = "graph_subject" /\ lastcb'.outcome = "ok"
            /\ scope'.graph = scope.graph \cup {ObjectOf(vocabulary, lastcb'.term)}
            /\ scope'.n = scope.n + 1
            /\ scope'.node = scope.node
            /\ doc' = doc /\ counts'.inserts = counts.inserts
        /\ GraphSubjectFailed =>
            /\ lastcb'.cb = "graph_subject" /\ lastcb'.outcome \in {"err", "panic"}
            /\ doc' = doc /\ counts'.inserts = counts.inserts
            /\ scope' = NoScope
            /\ calls'[Len(calls')] = [cb |-> "named_graph", out |-> lastcb'.outcome]
            /\ lastcb'.outcome = "err" =>
                  ret' = [kind |-> "err", doc |-> {}, error |-> "VisitError"]
            /\ lastcb'.outcome = "panic" => ret' = NoReturn
            /\ ~(ENABLED NextDoc)'
        /\ GraphClosed =>
            /\ doc' = doc \cup {NodeObject(scope.node.id,
                                   [some |-> TRUE, objects |-> scope.graph])}
            /\ counts'.inserts = counts.inserts + 1
            /\ calls'[Len(calls')] = [cb |-> "named_graph", out |-> "ok"]
            /\ Cardinality(scope.graph) <= scope.n
      ]_vars

C11_Witness ==
    /\ dstate = "running" /\ scope.kind = "none"
    /\ calls # <<>> /\ calls[Len(calls)] = [cb |-> "named_graph", out |-> "ok"]
    /\ counts.inserts = lastcb.counts.inserts + 1
    /\ \E o \in doc \ lastcb.before :
          /\ o.kind = "Node" /\ o.id = "ex:a"
          /\ o.graph.some
          /\ \E v, n \in o.graph.objects : v.kind = "Value" /\ n.kind = "Node"

=============================================================================
